---- MODULE Spec2Model ----
(***************************************************************************)
(* Model of scripts/format-mdx.py: the inline tokenizer, the greedy line   *)
(* wrapper, the line classifier and the per-file driver.                   *)
(*                                                                         *)
(* A text is a sequence of characters; a character is a one-character      *)
(* string, except the backquote and the code points above 127, which are   *)
(* written by code point ("U0060", "U4E2D").  Indices passed to the        *)
(* helpers are Python's (0-based).                                         *)
(***************************************************************************)
EXTENDS Integers, Sequences, FiniteSets, TLC

VARIABLES
    text,            \* wrap_inline: the argument `text`
    max_width,       \* wrap_inline / main: the visible width limit
    tokens,          \* wrap_inline: tokenize_inline(text)
    idx,             \* wrap_inline: 1-based position of `token` in the for loop
    current,         \* wrap_inline: the line buffer
    current_width,   \* wrap_inline: accumulated width of the buffer
    last_break,      \* wrap_inline: None (<<>>) or <<k>>
    lines,           \* wrap_inline: the output lines emitted so far
    flushed,         \* history: the unit slices flush_line appended to `lines`
    pc,              \* wrap_inline: "loop", "done" (returned) or "off"
    result,          \* wrap_inline: the returned list
    file,            \* main: the content of the .mdx file, as lines
    check,           \* main: args.check
    doc,             \* format_mdx_file: original.splitlines()
    pos,             \* format_mdx_file: number of lines consumed by the for loop
    out_lines,       \* format_mdx_file: out_lines
    in_frontmatter,  \* format_mdx_file
    frontmatter_done,\* format_mdx_file
    in_code_fence,   \* format_mdx_file
    handled,         \* history: per consumed line, the branch taken and its output
    dpc,             \* main: "scan", "exit" or "off"
    exit_code        \* main: the returned status

wrapVars == <<text, tokens, idx, current, current_width, last_break, lines,
              flushed, pc, result>>
docVars == <<file, check, doc, pos, out_lines, in_frontmatter, frontmatter_done,
             in_code_fence, handled, dpc, exit_code>>
vars == <<max_width, wrapVars, docVars>>

(***************************************************************************)
(* Bounds of the model.                                                    *)
(***************************************************************************)
MaxChunks == 3
MaxWidth == 3
MaxDocLines == 4

(***************************************************************************)
(* Characters.                                                             *)
(***************************************************************************)
Wide == "U4E2D"
BQ == "U0060"

ord(ch) ==
    CASE ch = "\t" -> 9
      [] ch = "\n" -> 10
      [] ch = "\f" -> 12
      [] ch = "\r" -> 13
      [] ch = " " -> 32
      [] ch = "!" -> 33
      [] ch = "#" -> 35
      [] ch = "(" -> 40
      [] ch = ")" -> 41
      [] ch = "*" -> 42
      [] ch = "+" -> 43
      [] ch = "," -> 44
      [] ch = "-" -> 45
      [] ch = "." -> 46
      [] ch = "/" -> 47
      [] ch = "1" -> 49
      [] ch = ":" -> 58
      [] ch = ";" -> 59
      [] ch = "<" -> 60
      [] ch = ">" -> 62
      [] ch = "?" -> 63
      [] ch = "[" -> 91
      [] ch = "]" -> 93
      [] ch = "U0060" -> 96
      [] ch = "a" -> 97
      [] ch = "b" -> 98
      [] ch = "|" -> 124
      [] ch = "}" -> 125
      [] ch = "U3001" -> 12289
      [] ch = "U3002" -> 12290
      [] ch = "U3009" -> 12297
      [] ch = "U300B" -> 12299
      [] ch = "U3011" -> 12305
      [] ch = "U4E2D" -> 20013
      [] ch = "UFEFF" -> 65279
      [] ch = "UFF01" -> 65281
      [] ch = "UFF09" -> 65289
      [] ch = "UFF0C" -> 65292
      [] ch = "UFF1A" -> 65306
      [] ch = "UFF1B" -> 65307
      [] ch = "UFF1F" -> 65311

PUNCT_BREAK ==
    {" ", "\t",
     "UFF0C", "U3002", ",", ".", ";", "UFF1B", "UFF1A", ":", "U3001",
     "!", "UFF01", "?", "UFF1F",
     ")", "UFF09", "]", "U3011", "}", "U300B", "U3009",
     "/"}

\* str.isspace / the characters str.strip and the regex class \s remove
Whitespace == {" ", "\t", "\n", "\r", "\f"}

isspace(ch) == ch \in Whitespace

Digits == {"1"}

(***************************************************************************)
(* String helpers (Python indices).                                        *)
(***************************************************************************)
Min(S) == CHOOSE m \in S : \A n \in S : m <= n

At(s, i) == s[i + 1]

\* s[i:j]
Slice(s, i, j) == SubSeq(s, i + 1, j)

\* c * n
Rep(c, n) == [k \in 1..n |-> c]

\* s.find(pat, start)
Find(s, pat, start) ==
    LET hits == {k \in start..(Len(s) - Len(pat)) : Slice(s, k, k + Len(pat)) = pat}
    IN  IF hits = {} THEN -1 ELSE Min(hits)

\* the number of consecutive characters of s, from index i on, that are in S
RECURSIVE RunLen(_, _, _)
RunLen(s, i, S) ==
    IF i < Len(s) /\ At(s, i) \in S THEN 1 + RunLen(s, i + 1, S) ELSE 0

RECURSIVE rstrip(_)
rstrip(s) ==
    IF s # <<>> /\ isspace(s[Len(s)]) THEN rstrip(SubSeq(s, 1, Len(s) - 1)) ELSE s

lstrip(s) == Slice(s, RunLen(s, 0, Whitespace), Len(s))

strip(s) == lstrip(rstrip(s))

startswith(s, pat) == Len(s) >= Len(pat) /\ Slice(s, 0, Len(pat)) = pat

RECURSIVE approx_display_width(_)
approx_display_width(s) ==
    IF s = <<>> THEN 0
    ELSE (IF ord(Head(s)) <= 127 THEN 1 ELSE 2) + approx_display_width(Tail(s))

(***************************************************************************)
(* tokenize_inline                                                         *)
(***************************************************************************)
Token(raw, visible, width, breakable_after, is_whitespace) ==
    [raw |-> raw, visible |-> visible, width |-> width,
     breakable_after |-> breakable_after, is_whitespace |-> is_whitespace]

\* CODE_SPAN_RE.match(raw), then m.group(2) if m else raw
CodeSpanVisible(raw) ==
    LET lead == RunLen(raw, 0, {BQ})
        ks == {k \in 1..lead :
                 /\ 2 * k <= Len(raw)
                 /\ Slice(raw, Len(raw) - k, Len(raw)) = Rep(BQ, k)}
    IN  IF ks = {} THEN raw
        ELSE LET k == CHOOSE m \in ks : \A n \in ks : n <= m
             IN  Slice(raw, k, Len(raw) - k)

\* LINK_RE.match(raw), then m.group(1) if m else raw
LinkVisible(raw) ==
    LET c == Find(raw, <<"]">>, 1)
    IN  IF /\ Len(raw) >= 6
           /\ At(raw, 0) = "["
           /\ c >= 2
           /\ c + 1 < Len(raw)
           /\ At(raw, c + 1) = "("
           /\ Find(raw, <<")">>, c + 2) = Len(raw) - 1
           /\ Len(raw) - 1 > c + 2
        THEN Slice(raw, 1, c)
        ELSE raw

\* the closing index j of the code span opening at i, or -1
CodeSpanClose(s, i) ==
    LET run == RunLen(s, i, {BQ})
    IN  Find(s, Rep(BQ, run), i + run)

\* the index of the closing parenthesis of the link opening at i, or -1
LinkClose(s, i) ==
    LET close == Find(s, <<"]">>, i + 1)
    IN  IF close # -1 /\ close + 1 < Len(s) /\ At(s, close + 1) = "("
        THEN Find(s, <<")">>, close + 2)
        ELSE -1

\* one pass of the while loop at index i: the token appended and the next i
ScanToken(s, i) ==
    LET ch == At(s, i)
    IN  IF ch = BQ /\ CodeSpanClose(s, i) # -1
        THEN LET run == RunLen(s, i, {BQ})
                 j == CodeSpanClose(s, i)
                 raw == Slice(s, i, j + run)
                 visible == CodeSpanVisible(raw)
             IN  [token |-> Token(raw, visible, approx_display_width(visible),
                                  TRUE, FALSE),
                  next |-> j + run]
        ELSE IF ch = "[" /\ LinkClose(s, i) # -1
        THEN LET close_paren == LinkClose(s, i)
                 raw == Slice(s, i, close_paren + 1)
                 visible == LinkVisible(raw)
             IN  [token |-> Token(raw, visible, approx_display_width(visible),
                                  TRUE, FALSE),
                  next |-> close_paren + 1]
        ELSE IF ch = "<" /\ Find(s, <<">">>, i + 1) # -1
        THEN LET close == Find(s, <<">">>, i + 1)
             IN  [token |-> Token(Slice(s, i, close + 1), <<>>, 0, FALSE, FALSE),
                  next |-> close + 1]
        ELSE LET is_ws == isspace(ch)
             IN  [token |-> Token(<<ch>>, <<ch>>, approx_display_width(<<ch>>),
                                  is_ws \/ ch \in PUNCT_BREAK, is_ws),
                  next |-> i + 1]

RECURSIVE TokenizeFrom(_, _)
TokenizeFrom(s, i) ==
    IF i < Len(s)
    THEN LET t == ScanToken(s, i) IN <<t.token>> \o TokenizeFrom(s, t.next)
    ELSE <<>>

tokenize_inline(s) == TokenizeFrom(s, 0)

(***************************************************************************)
(* wrap_inline: the loop state and one operator per branch of the loop     *)
(***************************************************************************)
None == <<>>
Some(n) == <<n>>

RECURSIVE JoinRaw(_)
JoinRaw(toks) == IF toks = <<>> THEN <<>> ELSE Head(toks).raw \o JoinRaw(Tail(toks))

RECURSIVE SumWidth(_)
SumWidth(toks) == IF toks = <<>> THEN 0 ELSE Head(toks).width + SumWidth(Tail(toks))

\* the loop state st is [current, current_width, last_break, lines, flushed]
flush_line(st, toks) ==
    LET raw == rstrip(JoinRaw(toks))
    IN  IF raw # <<>> \/ st.lines # <<>>
        THEN [st EXCEPT !.lines = Append(@, raw), !.flushed = Append(@, toks)]
        ELSE st

RECURSIVE strip_leading_ws(_)
strip_leading_ws(toks) ==
    IF toks # <<>> /\ Head(toks).is_whitespace THEN strip_leading_ws(Tail(toks))
    ELSE toks

recompute_breakpoint(cur) ==
    LET S == {k \in 1..Len(cur) : cur[k].breakable_after}
    IN  IF S = {} THEN None ELSE Some(CHOOSE k \in S : \A m \in S : m <= k)

\* line 158
SkipsToken(st, token) == st.current = <<>> /\ token.is_whitespace

\* line 161
SeedsBuffer(st, token) == ~SkipsToken(st, token) /\ st.current = <<>>

\* mutant: the width already in the buffer is not counted
Fits_NoBuffer(st, token, w) ==
    /\ st.current # <<>>
    /\ token.width <= w

\* line 167
Fits(st, token, w) ==
    /\ st.current # <<>>
    /\ st.current_width + token.width <= w

\* line 174
HasBreakpoint(st) == st.last_break # None /\ st.last_break[1] > 0

\* lines 162-164
Seed(st, token) ==
    [st EXCEPT !.current = <<token>>,
               !.current_width = token.width,
               !.last_break = IF token.breakable_after THEN Some(1) ELSE None]

\* lines 168-171
Place(st, token) ==
    [st EXCEPT !.current = Append(@, token),
               !.current_width = @ + token.width,
               !.last_break = IF token.breakable_after
                              THEN Some(Len(st.current) + 1) ELSE @]

\* mutant: the unit after the breakpoint is taken for a space and dropped
BreakAtBreakpoint_DropNext(st) ==
    LET lb == st.last_break[1]
        st1 == flush_line(st, SubSeq(st.current, 1, lb))
        remainder == strip_leading_ws(SubSeq(st.current, lb + 2, Len(st.current)))
    IN  [st1 EXCEPT !.current = remainder,
                    !.current_width = SumWidth(remainder),
                    !.last_break = recompute_breakpoint(remainder)]

\* lines 175-179
BreakAtBreakpoint(st) ==
    LET lb == st.last_break[1]
        st1 == flush_line(st, SubSeq(st.current, 1, lb))
        remainder == strip_leading_ws(SubSeq(st.current, lb + 1, Len(st.current)))
    IN  [st1 EXCEPT !.current = remainder,
                    !.current_width = SumWidth(remainder),
                    !.last_break = recompute_breakpoint(remainder)]

\* mutant: the buffer is not reset after the forced flush
ForcedBreak_NoReset(st) == flush_line(st, st.current)

\* lines 182-185
ForcedBreak(st) ==
    [flush_line(st, st.current) EXCEPT !.current = <<>>,
                                       !.current_width = 0,
                                       !.last_break = None]

\* lines 188-193
Finish(st) ==
    LET st1 == IF st.current # <<>> THEN flush_line(st, st.current) ELSE st
    IN  IF st1.lines = <<>> THEN << <<>> >> ELSE st1.lines

InitSt ==
    [current |-> <<>>, current_width |-> 0, last_break |-> None, lines |-> <<>>,
     flushed |-> <<>>]

\* the for loop from token k on, as a function of the loop state
RECURSIVE WrapFrom(_, _, _, _)
WrapFrom(st, toks, k, w) ==
    IF k > Len(toks) THEN Finish(st)
    ELSE LET token == toks[k]
         IN  IF SkipsToken(st, token) THEN WrapFrom(st, toks, k + 1, w)
             ELSE IF SeedsBuffer(st, token) THEN WrapFrom(Seed(st, token), toks, k + 1, w)
             ELSE IF Fits(st, token, w) THEN WrapFrom(Place(st, token), toks, k + 1, w)
             ELSE IF HasBreakpoint(st) THEN WrapFrom(BreakAtBreakpoint(st), toks, k, w)
             ELSE WrapFrom(ForcedBreak(st), toks, k, w)

wrap_inline(s, w) == WrapFrom(InitSt, tokenize_inline(s), 1, w)

(***************************************************************************)
(* The wrap loop as a state machine                                        *)
(***************************************************************************)
St ==
    [current |-> current, current_width |-> current_width,
     last_break |-> last_break, lines |-> lines, flushed |-> flushed]

SetSt(st) ==
    /\ current' = st.current
    /\ current_width' = st.current_width
    /\ last_break' = st.last_break
    /\ lines' = st.lines
    /\ flushed' = st.flushed

InLoop == pc = "loop" /\ idx <= Len(tokens)

SkipWhitespace ==
    /\ InLoop
    /\ SkipsToken(St, tokens[idx])
    /\ idx' = idx + 1
    /\ UNCHANGED <<text, max_width, tokens, current, current_width, last_break,
                   lines, flushed, pc, result, docVars>>

SeedBuffer ==
    /\ InLoop
    /\ SeedsBuffer(St, tokens[idx])
    /\ SetSt(Seed(St, tokens[idx]))
    /\ idx' = idx + 1
    /\ UNCHANGED <<text, max_width, tokens, pc, result, docVars>>

AppendToken ==
    /\ InLoop
    /\ ~SkipsToken(St, tokens[idx])
    /\ ~SeedsBuffer(St, tokens[idx])
    /\ Fits(St, tokens[idx], max_width)
    /\ SetSt(Place(St, tokens[idx]))
    /\ idx' = idx + 1
    /\ UNCHANGED <<text, max_width, tokens, pc, result, docVars>>

BreakFlush ==
    /\ InLoop
    /\ ~SkipsToken(St, tokens[idx])
    /\ ~SeedsBuffer(St, tokens[idx])
    /\ ~Fits(St, tokens[idx], max_width)
    /\ HasBreakpoint(St)
    /\ SetSt(BreakAtBreakpoint(St))
    /\ UNCHANGED <<text, max_width, tokens, idx, pc, result, docVars>>

ForcedFlush ==
    /\ InLoop
    /\ ~SkipsToken(St, tokens[idx])
    /\ ~SeedsBuffer(St, tokens[idx])
    /\ ~Fits(St, tokens[idx], max_width)
    /\ ~HasBreakpoint(St)
    /\ SetSt(ForcedBreak(St))
    /\ UNCHANGED <<text, max_width, tokens, idx, pc, result, docVars>>

Return ==
    /\ pc = "loop"
    /\ idx > Len(tokens)
    /\ LET st1 == IF current # <<>> THEN flush_line(St, current) ELSE St
       IN  /\ lines' = st1.lines
           /\ flushed' = st1.flushed
    /\ result' = Finish(St)
    /\ pc' = "done"
    /\ UNCHANGED <<text, max_width, tokens, idx, current, current_width, last_break,
                   docVars>>

(***************************************************************************)
(* split_prefix, wrap_line                                                 *)
(***************************************************************************)
\* the length of the match of ^\s*M{lo,hi}E?\s+ at the start of line, or 0:
\* leading whitespace, lo..hi marker characters of M, one character of E when
\* E is not empty, then at least one whitespace character
PrefixMatch(line, M, lo, hi, E) ==
    LET n0 == RunLen(line, 0, Whitespace)
        n1 == RunLen(line, n0, M)
        e == IF E = {} THEN 0 ELSE 1
        endOk == E = {} \/ (n0 + n1 < Len(line) /\ At(line, n0 + n1) \in E)
        n2 == RunLen(line, n0 + n1 + e, Whitespace)
    IN  IF n1 >= lo /\ n1 <= hi /\ endOk /\ n2 >= 1 THEN n0 + n1 + e + n2 ELSE 0

\* BLOCKQUOTE_PREFIX_RE, LIST_PREFIX_RE, ORDERED_PREFIX_RE: length of group 1
BlockquotePrefixLen(line) == PrefixMatch(line, {">"}, 1, Len(line), {})
ListPrefixLen(line) == PrefixMatch(line, {"-", "*", "+"}, 1, 1, {})
OrderedPrefixLen(line) == PrefixMatch(line, Digits, 1, Len(line), {".", ")"})

\* HEADING_RE.match(line)
HeadingMatch(line) == PrefixMatch(line, {"#"}, 1, 6, {}) > 0

split_prefix(line) ==
    LET cut(n, kind) ==
            [prefix |-> Slice(line, 0, n), content |-> Slice(line, n, Len(line)),
             kind |-> kind]
    IN  IF BlockquotePrefixLen(line) > 0 THEN cut(BlockquotePrefixLen(line), "blockquote")
        ELSE IF ListPrefixLen(line) > 0 THEN cut(ListPrefixLen(line), "list")
        ELSE IF OrderedPrefixLen(line) > 0 THEN cut(OrderedPrefixLen(line), "ordered")
        ELSE cut(RunLen(line, 0, Whitespace), "plain")

wrap_line(line, w) ==
    IF strip(line) = <<>> THEN << <<>> >>
    ELSE IF HeadingMatch(line) THEN <<rstrip(line)>>
    ELSE IF startswith(lstrip(line), <<"|">>) THEN <<rstrip(line)>>
    ELSE LET sp == split_prefix(rstrip(line))
             content_lines == wrap_inline(sp.content, w)
             cont_prefix == IF sp.kind = "blockquote" THEN sp.prefix
                            ELSE IF sp.kind \in {"list", "ordered"}
                            THEN Rep(" ", Len(sp.prefix))
                            ELSE sp.prefix
         IN  [k \in 1..Len(content_lines) |->
                 (IF k = 1 THEN sp.prefix ELSE cont_prefix) \o content_lines[k]]

(***************************************************************************)
(* format_mdx_file and main, for one file                                  *)
(***************************************************************************)
Dashes == <<"-", "-", "-">>
Fence == <<BQ, BQ, BQ>>

\* line.lstrip("﻿").strip() == "---"
IsDashLine(line) ==
    strip(Slice(line, RunLen(line, 0, {"UFEFF"}), Len(line))) = Dashes

\* line.strip().startswith("```")
IsFenceLine(line) == startswith(strip(line), Fence)

Scanning == dpc = "scan" /\ pos < Len(doc)

Line == doc[pos + 1]

Emit(how, out) ==
    /\ out_lines' = out_lines \o out
    /\ handled' = Append(handled, [how |-> how, out |-> out])
    /\ pos' = pos + 1

\* lines 260-267
FrontmatterLine ==
    /\ Scanning
    /\ ~frontmatter_done
    /\ Emit("verbatim", <<rstrip(Line)>>)
    /\ IF IsDashLine(Line)
       THEN /\ in_frontmatter' = ~in_frontmatter
            /\ frontmatter_done' = in_frontmatter
       ELSE UNCHANGED <<in_frontmatter, frontmatter_done>>
    /\ UNCHANGED <<max_width, wrapVars, file, check, doc, in_code_fence, dpc,
                   exit_code>>

\* lines 269-272
FenceDelimiter ==
    /\ Scanning
    /\ frontmatter_done
    /\ IsFenceLine(Line)
    /\ Emit("verbatim", <<rstrip(Line)>>)
    /\ in_code_fence' = ~in_code_fence
    /\ UNCHANGED <<max_width, wrapVars, file, check, doc, in_frontmatter,
                   frontmatter_done, dpc, exit_code>>

\* lines 273-275
FencedLine ==
    /\ Scanning
    /\ frontmatter_done
    /\ ~IsFenceLine(Line)
    /\ in_code_fence
    /\ Emit("verbatim", <<rstrip(Line)>>)
    /\ UNCHANGED <<max_width, wrapVars, file, check, doc, in_frontmatter,
                   frontmatter_done, in_code_fence, dpc, exit_code>>

\* lines 277-278
WrapProse ==
    /\ Scanning
    /\ frontmatter_done
    /\ ~IsFenceLine(Line)
    /\ ~in_code_fence
    /\ Emit("wrapped", wrap_line(Line, max_width))
    /\ UNCHANGED <<max_width, wrapVars, file, check, doc, in_frontmatter,
                   frontmatter_done, in_code_fence, dpc, exit_code>>

\* lines 280-282 and 315-331: the formatted text is compared with the original,
\* written back unless --check, and the status is returned
EndOfFile ==
    /\ dpc = "scan"
    /\ pos = Len(doc)
    /\ LET changed == out_lines # file
       IN  /\ file' = IF changed /\ ~check THEN out_lines ELSE file
           /\ exit_code' = IF check /\ changed THEN 1 ELSE 0
    /\ dpc' = "exit"
    /\ UNCHANGED <<max_width, wrapVars, check, doc, pos, out_lines, in_frontmatter,
                   frontmatter_done, in_code_fence, handled>>

\* a second run of main on the same root, with --check (lines 250-257)
RunCheck ==
    /\ dpc = "exit"
    /\ ~check
    /\ check' = TRUE
    /\ doc' = file
    /\ pos' = 0
    /\ out_lines' = <<>>
    /\ in_frontmatter' = FALSE
    /\ frontmatter_done' = FALSE
    /\ in_code_fence' = FALSE
    /\ handled' = <<>>
    /\ dpc' = "scan"
    /\ exit_code' = -1
    /\ UNCHANGED <<max_width, wrapVars, file>>

(***************************************************************************)
(* Inputs                                                                  *)
(***************************************************************************)
Chunks ==
    { <<"a">>, <<" ">>, <<"a", " ", "a">>, <<",">>, <<BQ>>, <<BQ, "a", BQ>>,
      <<"[", "a", "]", "(", "a", ")">>, <<"<", "b", ">">>, <<Wide>> }

RECURSIVE Concat(_)
Concat(ss) == IF ss = <<>> THEN <<>> ELSE Head(ss) \o Concat(Tail(ss))

Texts == UNION {{Concat(cs) : cs \in [1..n -> Chunks]} : n \in 0..MaxChunks}

Widths == 0..MaxWidth

DocOff ==
    /\ file = <<>>
    /\ check = FALSE
    /\ doc = <<>>
    /\ pos = 0
    /\ out_lines = <<>>
    /\ in_frontmatter = FALSE
    /\ frontmatter_done = FALSE
    /\ in_code_fence = FALSE
    /\ handled = <<>>
    /\ dpc = "off"
    /\ exit_code = -1

Init ==
    /\ text \in Texts
    /\ max_width \in Widths
    /\ tokens = tokenize_inline(text)
    /\ idx = 1
    /\ current = <<>>
    /\ current_width = 0
    /\ last_break = None
    /\ lines = <<>>
    /\ flushed = <<>>
    /\ pc = "loop"
    /\ result = <<>>
    /\ DocOff

Next ==
    \/ SkipWhitespace
    \/ SeedBuffer
    \/ AppendToken
    \/ BreakFlush
    \/ ForcedFlush
    \/ Return

Spec == Init /\ [][Next]_vars

\* the wrap loop never stops before it returns
FairSpec == Spec /\ WF_vars(Next)

DocLines ==
    { Dashes, Fence, <<"#", "#", " ">>, <<"a", " ", "#", " ", "a">>,
      <<"a", " ", "a", " ", "a">>, <<"-", " ", "a", " ", "a">>,
      <<">", " ", "a", " ", "a">>, <<"|", " ", "a", " ", "a">>,
      <<"1", ".", " ", "a", " ", "a">> }

Docs == UNION {[1..n -> DocLines] : n \in 0..MaxDocLines}

WrapOff ==
    /\ text = <<>>
    /\ tokens = <<>>
    /\ idx = 1
    /\ current = <<>>
    /\ current_width = 0
    /\ last_break = None
    /\ lines = <<>>
    /\ flushed = <<>>
    /\ pc = "off"
    /\ result = <<>>

DocInit ==
    /\ max_width \in Widths
    /\ file \in Docs
    /\ check = FALSE
    /\ doc = file
    /\ pos = 0
    /\ out_lines = <<>>
    /\ in_frontmatter = FALSE
    /\ frontmatter_done = FALSE
    /\ in_code_fence = FALSE
    /\ handled = <<>>
    /\ dpc = "scan"
    /\ exit_code = -1
    /\ WrapOff

DocNext ==
    \/ FrontmatterLine
    \/ FenceDelimiter
    \/ FencedLine
    \/ WrapProse
    \/ EndOfFile
    \/ RunCheck

DocSpec == DocInit /\ [][DocNext]_vars

(***************************************************************************)
(* Properties of the wrap loop (Spec, FairSpec)                            *)
(***************************************************************************)
Last(q) == q[Len(q)]

\* the units of a flushed slice that rstrip leaves on the line
RECURSIVE TrimWs(_)
TrimWs(toks) ==
    IF toks # <<>> /\ Last(toks).is_whitespace THEN TrimWs(SubSeq(toks, 1, Len(toks) - 1))
    ELSE toks

\* the index of the first unit at or after k that is not whitespace
RECURSIVE SkipWs(_, _)
SkipWs(toks, k) ==
    IF k <= Len(toks) /\ toks[k].is_whitespace THEN SkipWs(toks, k + 1) ELSE k

\* C1: every emitted line has width (the sum of the widths of the units placed
\* on it) at most max_width, unless it is exactly one unit wider than
\* max_width; and at every step the buffer has current_width <= max_width or
\* holds exactly one unit, current_width being the width of the buffer.
C1_NoOverflow ==
    /\ current_width = SumWidth(current)
    /\ current_width <= max_width \/ Len(current) = 1
    /\ Len(lines) = Len(flushed)
    /\ \A k \in 1..Len(flushed) :
          \/ SumWidth(flushed[k]) <= max_width
          \/ Len(flushed[k]) = 1 /\ flushed[k][1].width > max_width

C1_Witness ==
    /\ pc = "done"
    /\ max_width > 0
    /\ \E k \in 1..Len(flushed) : Len(flushed[k]) = 1 /\ flushed[k][1].width > max_width
    /\ \E k \in 1..Len(flushed) : Len(flushed[k]) >= 2 /\ SumWidth(flushed[k]) = max_width

\* the flushed slices fl are, in order, contiguous slices of toks from unit k
\* on, each starting at a unit that is not whitespace, with nothing but
\* whitespace units between and after them
RECURSIVE Covers(_, _, _)
Covers(toks, k, fl) ==
    LET k1 == SkipWs(toks, k)
    IN  IF fl = <<>> THEN k1 > Len(toks)
        ELSE LET n == Len(Head(fl))
             IN  /\ n >= 1
                 /\ k1 + n - 1 <= Len(toks)
                 /\ SubSeq(toks, k1, k1 + n - 1) = Head(fl)
                 /\ Covers(toks, k1 + n, Tail(fl))

\* C4: wrapping loses no content.  The raw texts of the units concatenate to
\* the text; the lines returned are, in order, contiguous runs of those units;
\* the units left out are whitespace units between two lines, before the first
\* or after the last, and the whitespace units trimmed at the end of a line;
\* whitespace inside a line is kept.
C4_LosesNothing ==
    pc = "done" =>
        /\ JoinRaw(tokens) = text
        /\ Covers(tokens, 1, flushed)
        /\ Len(lines) = Len(flushed)
        /\ \A k \in 1..Len(lines) :
              /\ lines[k] = JoinRaw(TrimWs(flushed[k]))
              /\ lines[k] # <<>>
        /\ result = IF lines = <<>> THEN << <<>> >> ELSE lines

C4_Witness ==
    /\ pc = "done"
    /\ Len(result) >= 2
    /\ Len(Concat(result)) < Len(text)
    /\ \E j \in 1..Len(result) : \E k \in 2..(Len(result[j]) - 1) : isspace(result[j][k])

\* C6: a pass of the retry loop that does not place or skip the current unit
\* strictly shrinks the buffer, or emits a line and empties the buffer; and
\* wrap_inline returns, also for max_width = 0.
C6_Terminates ==
    /\ [][(pc = "loop" /\ pc' = "loop" /\ idx' = idx) =>
            \/ Len(current') < Len(current)
            \/ current' = <<>> /\ Len(lines') = Len(lines) + 1]_vars
    /\ <>(pc = "done")

C6_Witness ==
    /\ pc = "done"
    /\ max_width = 0
    /\ Len(result) >= 3
    /\ \E k \in 1..Len(flushed) : Len(flushed[k]) >= 2

\* the index in toks of the first unit of each flushed slice
RECURSIVE SliceStarts(_, _, _)
SliceStarts(toks, k, fl) ==
    IF fl = <<>> THEN <<>>
    ELSE LET k1 == SkipWs(toks, k)
         IN  <<k1>> \o SliceStarts(toks, k1 + Len(Head(fl)), Tail(fl))

\* the offset in the text at which unit k starts
Offset(toks, k) == Len(JoinRaw(SubSeq(toks, 1, k - 1)))

\* the offsets in the text at which an output line starts or ends
Cuts ==
    LET starts == SliceStarts(tokens, 1, flushed)
    IN  UNION {{Offset(tokens, starts[j]),
                Offset(tokens, starts[j] + Len(TrimWs(flushed[j])))} :
               j \in 1..Len(flushed)}

\* the index of the next maximal backquote run of length exactly run, or -1
RunClose(s, from, run) ==
    LET hits == {j \in from..(Len(s) - 1) :
                   /\ At(s, j) = BQ
                   /\ At(s, j - 1) # BQ
                   /\ RunLen(s, j, {BQ}) = run}
    IN  IF hits = {} THEN -1 ELSE Min(hits)

\* the code spans and links of s, as pairs <<start, end>> of offsets: a code
\* span runs from a maximal run of n backquotes to the next run of exactly n
\* backquotes; a link is [label](target); a raw tag is passed over as a whole
RECURSIVE Spans(_, _)
Spans(s, i) ==
    IF i >= Len(s) THEN {}
    ELSE IF At(s, i) = BQ
    THEN LET run == RunLen(s, i, {BQ})
             j == RunClose(s, i + run, run)
         IN  IF j # -1 THEN {<<i, j + run>>} \cup Spans(s, j + run)
             ELSE Spans(s, i + run)
    ELSE IF At(s, i) = "[" /\ LinkClose(s, i) # -1
    THEN {<<i, LinkClose(s, i) + 1>>} \cup Spans(s, LinkClose(s, i) + 1)
    ELSE IF At(s, i) = "<" /\ Find(s, <<">">>, i + 1) # -1
    THEN Spans(s, Find(s, <<">">>, i + 1) + 1)
    ELSE Spans(s, i + 1)

\* C2: no line break is placed inside a code span or a link of the text: no
\* output line starts or ends strictly inside one.
C2_SpansAtomic ==
    pc = "done" =>
        \A sp \in Spans(text, 0) : \A c \in Cuts : ~(sp[1] < c /\ c < sp[2])

IsTag(t) == Head(t.raw) = "<" /\ Len(t.raw) >= 2 /\ t.width = 0 /\ ~t.breakable_after

\* C3: no line is broken directly after a raw tag: an emitted line ends with a
\* raw tag only when no unit follows the tag in the text.
C3_TagGlued ==
    \A k \in 1..Len(flushed) :
        IsTag(Last(flushed[k])) => pc = "done" /\ k = Len(flushed)

\* " ".join(ls)
RECURSIVE JoinSp(_)
JoinSp(ls) ==
    IF ls = <<>> THEN <<>>
    ELSE IF Len(ls) = 1 THEN ls[1]
    ELSE ls[1] \o <<" ">> \o JoinSp(Tail(ls))

\* C5: when no unit of the text is wider than max_width, wrapping the lines
\* of the result rejoined with single spaces gives the same lines.
C5_Idempotent ==
    (pc = "done" /\ \A k \in 1..Len(tokens) : tokens[k].width <= max_width) =>
        wrap_inline(JoinSp(result), max_width) = result

\* the text is words of plain characters that are not breakable, separated by
\* single spaces, and no word is wider than max_width
WordsText ==
    /\ tokens # <<>>
    /\ \A k \in 1..Len(tokens) :
          /\ Len(tokens[k].raw) = 1
          /\ IF tokens[k].is_whitespace
             THEN /\ tokens[k].raw = <<" ">>
                  /\ 1 < k /\ k < Len(tokens)
                  /\ ~tokens[k - 1].is_whitespace
             ELSE ~tokens[k].breakable_after
    /\ \A i \in 1..Len(tokens) : \A j \in i..Len(tokens) :
          (\A k \in i..j : ~tokens[k].is_whitespace) =>
              SumWidth(SubSeq(tokens, i, j)) <= max_width

FirstWord(line) ==
    IF Find(line, <<" ">>, 0) = -1 THEN line ELSE Slice(line, 0, Find(line, <<" ">>, 0))

\* C10: lines are filled greedily: in a text of words separated by single
\* spaces, the first word of every line but the first did not fit, after one
\* space, on the line before it.
C10_GreedyFill ==
    (pc = "done" /\ WordsText) =>
        \A k \in 1..(Len(result) - 1) :
            approx_display_width(result[k]) + 1
                + approx_display_width(FirstWord(result[k + 1])) > max_width

(***************************************************************************)
(* Properties of the file driver (DocSpec)                                 *)
(***************************************************************************)
\* the last line of the leading front-matter block of d: 0 when d does not
\* start with a --- line, the last line of d when the block is not closed
FrontmatterEnd(d) ==
    IF d # <<>> /\ IsDashLine(d[1])
    THEN LET S == {k \in 2..Len(d) : IsDashLine(d[k])}
         IN  IF S = {} THEN Len(d) ELSE Min(S)
    ELSE 0

\* line k of d is prose: after the front matter, no fence delimiter, not fenced
Prose(d, k) ==
    /\ k > FrontmatterEnd(d)
    /\ ~IsFenceLine(d[k])
    /\ Cardinality({j \in (FrontmatterEnd(d) + 1)..(k - 1) : IsFenceLine(d[j])}) % 2 = 0

\* C7: every line outside the leading front-matter block that is neither a
\* fence delimiter nor fenced is passed through wrap_line, with or without a
\* front-matter block; only the other lines are copied with their trailing
\* whitespace trimmed.
C7_ProseIsWrapped ==
    \A k \in 1..Len(handled) :
        handled[k].out = IF Prose(doc, k) THEN wrap_line(doc[k], max_width)
                         ELSE <<rstrip(doc[k])>>

\* text that a later reading of the document takes for a heading, a table row,
\* a fence delimiter, a quote or a list item
Structural(t) ==
    \/ HeadingMatch(t)
    \/ startswith(t, <<"|">>)
    \/ startswith(t, Fence)
    \/ BlockquotePrefixLen(t) > 0
    \/ ListPrefixLen(t) > 0
    \/ OrderedPrefixLen(t) > 0

\* C8: no continuation line returned by wrap_line has, after its continuation
\* prefix, text that is structural.
C8_NoNewStructure ==
    \A k \in 1..Len(handled) :
        handled[k].how = "wrapped" =>
            LET n == Len(split_prefix(rstrip(doc[k])).prefix)
                out == handled[k].out
            IN  \A j \in 2..Len(out) : ~Structural(Slice(out[j], n, Len(out[j])))

\* C9: a --check run directly after a formatting run reproduces the file and
\* exits 0.
C9_FormatIdempotent ==
    (dpc = "exit" /\ check) => (out_lines = file /\ exit_code = 0)

====
